---- MODULE Spec2Model ----
(***************************************************************************)
(* Model of Fifo<T, t_size> (src/FIFO.hpp): a statically sized circular    *)
(* buffer with push (optionally overwriting), pop_back, pull, read, drop,  *)
(* reset, operator[], operator== and an iterator.  The four data members   *)
(* are the state; every public method is one action.  The last call (its   *)
(* arguments, its return value, the caller's destination buffer and the    *)
(* object as it was before the call) is kept in the state so that the      *)
(* contract of each method can be stated as a state predicate.             *)
(***************************************************************************)
EXTENDS Integers, Sequences, FiniteSets, TLC

\* t_size, the template parameter of Fifo
Capacity == 3
\* elements are T = 0..MaxVal; 0 is the value of a value-initialised slot
MaxVal == 2
\* longest history followed by the ordering specification
MaxLog == 5

T == 0 .. MaxVal
\* longest source / initializer list and largest size argument tried
MaxLen == Capacity + 1
Sizes == 0 .. MaxLen

VARIABLES
    m_buffer,      \* std::array<T, t_size>, indexed 0 .. t_size-1
    m_readIdx,     \* index of the next element to read
    m_writeIdx,    \* index where the next element is written
    m_nbElements,  \* number of elements in the FIFO
    call,          \* the call that has just returned: method, arguments, return value,
                   \* destination; NoCall once the caller has taken the result
    pre,           \* the data members as they were when that call was made
    pushedLog,     \* ordering specification: every element accepted so far
    pulledLog,     \* ordering specification: every element handed out so far
    queue          \* the bounded queue the FIFO stands for: a sequence, oldest first

fifoVars == <<m_buffer, m_readIdx, m_writeIdx, m_nbElements>>
vars == <<m_buffer, m_readIdx, m_writeIdx, m_nbElements, call, pre, pushedLog, pulledLog,
          queue>>

Min(a, b) == IF a < b THEN a ELSE b

\* the last k elements of s
LastN(s, k) == SubSeq(s, Len(s) - k + 1, Len(s))

\* s without its first k elements
DropN(s, k) == SubSeq(s, k + 1, Len(s))

\* the first k elements of s
TakeN(s, k) == SubSeq(s, 1, k)

\* the source of n consecutive elements that starts with v: v, v+1, ... (mod MaxVal+1)
Run(v, n) == [i \in 1 .. n |-> (v + i - 1) % (MaxVal + 1)]

\* the sources and initializer lists tried: every length 0 .. MaxLen, every first element
Sources == {Run(v, n) : v \in T, n \in 0 .. MaxLen}

\* the data members as one value
Members(buf, r, w, n) == [m_buffer |-> buf, m_readIdx |-> r, m_writeIdx |-> w, m_nbElements |-> n]

This == Members(m_buffer, m_readIdx, m_writeIdx, m_nbElements)

\* Fifo(): indices and count zero, m_buffer{} value-initialised
Fifo == Members([i \in 0 .. Capacity - 1 |-> 0], 0, 0, 0)

\* what a destination slot holds before a call: a value that is no element
Unwritten == MaxVal + 1

\* the caller's destination buffer before a call
DestBuffer == [i \in 1 .. MaxLen |-> Unwritten]

\* other is the right-hand operand of operator==, visited what a loop over the
\* iterators has seen
NoCall == [op |-> "none", src |-> <<>>, overwrite |-> FALSE, size |-> 0,
           ret |-> 0, dest |-> DestBuffer, other |-> Fifo, visited |-> <<>>]

----------------------------------------------------------------------------
(* push *)

\* the early return, comparing the source with the size of the FIFO instead of its free space
PushRejectedBySize(f, src, overwrite) ==
    (~overwrite) /\ (Len(src) > Capacity)

\* the early return left out
PushRejectedNever(f, src, overwrite) == FALSE

\* the early return of push(std::span<const T>, bool)
PushRejected(f, src, overwrite) ==
    (~overwrite) /\ (Len(src) > (Capacity - f.m_nbElements))

\* the loop body without the test for a full FIFO
PushElementNoFullCheck(st, element) ==
    LET f   == st.f
        buf == [f.m_buffer EXCEPT ![f.m_writeIdx] = element]
        w   == (f.m_writeIdx + 1) % Capacity
    IN  [f |-> Members(buf, f.m_readIdx, w, f.m_nbElements + 1),
         nbElementsCopied |-> st.nbElementsCopied + 1]

\* the loop body that leaves m_readIdx alone when it overwrites
PushElementKeepRead(st, element) ==
    LET f   == st.f
        buf == [f.m_buffer EXCEPT ![f.m_writeIdx] = element]
        w   == (f.m_writeIdx + 1) % Capacity
    IN  IF f.m_nbElements < Capacity
        THEN [f |-> Members(buf, f.m_readIdx, w, f.m_nbElements + 1),
              nbElementsCopied |-> st.nbElementsCopied + 1]
        ELSE [f |-> Members(buf, f.m_readIdx, w, f.m_nbElements),
              nbElementsCopied |-> st.nbElementsCopied]

\* the loop body that counts every element written
PushElementCountsAll(st, element) ==
    LET f   == st.f
        buf == [f.m_buffer EXCEPT ![f.m_writeIdx] = element]
        w   == (f.m_writeIdx + 1) % Capacity
    IN  IF f.m_nbElements < Capacity
        THEN [f |-> Members(buf, f.m_readIdx, w, f.m_nbElements + 1),
              nbElementsCopied |-> st.nbElementsCopied + 1]
        ELSE [f |-> Members(buf, w, w, f.m_nbElements),
              nbElementsCopied |-> st.nbElementsCopied + 1]

\* the loop body that advances m_writeIdx before it stores the element
PushElementAdvanceFirst(st, element) ==
    LET f   == st.f
        w   == (f.m_writeIdx + 1) % Capacity
        buf == [f.m_buffer EXCEPT ![w] = element]
    IN  IF f.m_nbElements < Capacity
        THEN [f |-> Members(buf, f.m_readIdx, w, f.m_nbElements + 1),
              nbElementsCopied |-> st.nbElementsCopied + 1]
        ELSE [f |-> Members(buf, w, w, f.m_nbElements),
              nbElementsCopied |-> st.nbElementsCopied]

\* one iteration of the loop of push: the members and the copied counter
PushElement(st, element) ==
    LET f   == st.f
        buf == [f.m_buffer EXCEPT ![f.m_writeIdx] = element]
        w   == (f.m_writeIdx + 1) % Capacity
    IN  IF f.m_nbElements < Capacity
        THEN [f |-> Members(buf, f.m_readIdx, w, f.m_nbElements + 1),
              nbElementsCopied |-> st.nbElementsCopied + 1]
        ELSE [f |-> Members(buf, w, w, f.m_nbElements),
              nbElementsCopied |-> st.nbElementsCopied]

RECURSIVE PushLoop(_, _)
PushLoop(st, src) ==
    IF src = <<>> THEN st
    ELSE PushLoop(PushElement(st, Head(src)), Tail(src))

\* push(std::span<const T> src, bool overwrite): new members and return value
PushSpan(f, src, overwrite) ==
    IF PushRejected(f, src, overwrite)
    THEN [f |-> f, ret |-> 0]
    ELSE LET st == PushLoop([f |-> f, nbElementsCopied |-> 0], src)
         IN  [f |-> st.f, ret |-> st.nbElementsCopied]

\* bool push(T var, bool overwrite)
PushSingle(f, var, overwrite) ==
    LET r == PushSpan(f, <<var>>, overwrite)
    IN  [f |-> r.f, ret |-> (r.ret # 0)]

----------------------------------------------------------------------------
(* construction from an initializer list *)

\* a string literal used as a condition is a pointer that is not null
StringLiteralAsBool == TRUE

\* the size check with the assert that was meant: it fails on too long a list
InitListAssertOnSize(initList) == ~(Len(initList) > Capacity)

\* if (initList.size() > t_size) { assert("Too many elements to initialize FIFO"); }
\* TRUE when the constructor gets past it
InitListAssert(initList) == (Len(initList) > Capacity) => StringLiteralAsBool

RECURSIVE InitListLoop(_, _)
InitListLoop(f, initList) ==
    IF initList = <<>> THEN f
    ELSE InitListLoop(PushSingle(f, Head(initList), FALSE).f, Tail(initList))

\* Fifo(const std::initializer_list<T> &): the assert on a string literal
\* never fires, every item goes through push(item)
FifoFromList(initList) == InitListLoop(Fifo, initList)

----------------------------------------------------------------------------
(* pop_back, drop, pull, read *)

\* pop_back that copies the slot at m_readIdx before it looks at the count
PopBackCopiesFirst(f, dest) ==
    IF f.m_nbElements # 0
    THEN [f    |-> Members(f.m_buffer, (f.m_readIdx + 1) % Capacity, f.m_writeIdx,
                           f.m_nbElements - 1),
          ret  |-> TRUE,
          dest |-> [dest EXCEPT ![1] = f.m_buffer[f.m_readIdx]]]
    ELSE [f |-> f, ret |-> FALSE, dest |-> [dest EXCEPT ![1] = f.m_buffer[f.m_readIdx]]]

\* pop_back without --m_nbElements
PopBackKeepsCount(f, dest) ==
    IF f.m_nbElements # 0
    THEN [f    |-> Members(f.m_buffer, (f.m_readIdx + 1) % Capacity, f.m_writeIdx,
                           f.m_nbElements),
          ret  |-> TRUE,
          dest |-> [dest EXCEPT ![1] = f.m_buffer[f.m_readIdx]]]
    ELSE [f |-> f, ret |-> FALSE, dest |-> dest]

\* pop_back(T *dest): new members, return value and the destination
PopBack(f, dest) ==
    IF f.m_nbElements # 0
    THEN [f    |-> Members(f.m_buffer, (f.m_readIdx + 1) % Capacity, f.m_writeIdx,
                           f.m_nbElements - 1),
          ret  |-> TRUE,
          dest |-> [dest EXCEPT ![1] = f.m_buffer[f.m_readIdx]]]
    ELSE [f |-> f, ret |-> FALSE, dest |-> dest]

\* drop without the std::min
DropUnclamped(f, size) ==
    LET droppedSamples == size
    IN  [f   |-> Members(f.m_buffer, (f.m_readIdx + droppedSamples) % Capacity,
                         f.m_writeIdx, f.m_nbElements - droppedSamples),
         ret |-> droppedSamples]

\* drop that advances m_readIdx without the modulo
DropNoModulo(f, size) ==
    LET droppedSamples == Min(f.m_nbElements, size)
    IN  [f   |-> Members(f.m_buffer, f.m_readIdx + droppedSamples,
                         f.m_writeIdx, f.m_nbElements - droppedSamples),
         ret |-> droppedSamples]

\* drop(size_t size)
Drop(f, size) ==
    LET droppedSamples == Min(f.m_nbElements, size)
    IN  [f   |-> Members(f.m_buffer, (f.m_readIdx + droppedSamples) % Capacity,
                         f.m_writeIdx, f.m_nbElements - droppedSamples),
         ret |-> droppedSamples]

\* the loop body of pull without destination++
PullElementSameSlot(st) ==
    [f          |-> Members(st.f.m_buffer, (st.f.m_readIdx + 1) % Capacity,
                            st.f.m_writeIdx, st.f.m_nbElements - 1),
     dest       |-> [st.dest EXCEPT ![st.pos] = st.f.m_buffer[st.f.m_readIdx]],
     pos        |-> st.pos,
     availSpace |-> st.availSpace - 1]

\* one iteration of the loop of pull; pos is the offset of the destination pointer
PullElement(st) ==
    [f          |-> Members(st.f.m_buffer, (st.f.m_readIdx + 1) % Capacity,
                            st.f.m_writeIdx, st.f.m_nbElements - 1),
     dest       |-> [st.dest EXCEPT ![st.pos] = st.f.m_buffer[st.f.m_readIdx]],
     pos        |-> st.pos + 1,
     availSpace |-> st.availSpace - 1]

RECURSIVE PullLoop(_)
PullLoop(st) ==
    IF st.availSpace > 0 /\ st.f.m_nbElements > 0
    THEN PullLoop(PullElement(st))
    ELSE st

\* pull that returns the space it was given
PullReturnsSpace(f, dest, availSpace) ==
    LET st == PullLoop([f |-> f, dest |-> dest, pos |-> 1, availSpace |-> availSpace])
    IN  [f |-> st.f, ret |-> availSpace, dest |-> st.dest]

\* pull(T *destination, size_t availSpace)
Pull(f, dest, availSpace) ==
    LET st == PullLoop([f |-> f, dest |-> dest, pos |-> 1, availSpace |-> availSpace])
    IN  [f |-> st.f, ret |-> availSpace - st.availSpace, dest |-> st.dest]

\* the loop body of read working on the members instead of its local copies
ReadElementOnMembers(st) ==
    [f            |-> Members(st.f.m_buffer, (st.f.m_readIdx + 1) % Capacity,
                              st.f.m_writeIdx, st.f.m_nbElements - 1),
     readIdx      |-> (st.readIdx + 1) % Capacity,
     remainInFifo |-> st.remainInFifo - 1,
     dest         |-> [st.dest EXCEPT ![st.pos] = st.f.m_buffer[st.readIdx]],
     pos          |-> st.pos + 1,
     availSpace   |-> st.availSpace - 1]

\* one iteration of the loop of read: only locals and the destination change
ReadElement(st) ==
    [f            |-> st.f,
     readIdx      |-> (st.readIdx + 1) % Capacity,
     remainInFifo |-> st.remainInFifo - 1,
     dest         |-> [st.dest EXCEPT ![st.pos] = st.f.m_buffer[st.readIdx]],
     pos          |-> st.pos + 1,
     availSpace   |-> st.availSpace - 1]

RECURSIVE ReadLoop(_)
ReadLoop(st) ==
    IF st.availSpace > 0 /\ st.remainInFifo > 0
    THEN ReadLoop(ReadElement(st))
    ELSE st

\* read whose local index starts at the first slot of m_buffer
ReadFromFirstSlot(f, dest, availSpace) ==
    LET st == ReadLoop([f |-> f, readIdx |-> 0, remainInFifo |-> f.m_nbElements,
                        dest |-> dest, pos |-> 1, availSpace |-> availSpace])
    IN  [f |-> st.f, ret |-> availSpace - st.availSpace, dest |-> st.dest]

\* read(T *destination, size_t availSpace)
Read(f, dest, availSpace) ==
    LET st == ReadLoop([f |-> f, readIdx |-> f.m_readIdx, remainInFifo |-> f.m_nbElements,
                        dest |-> dest, pos |-> 1, availSpace |-> availSpace])
    IN  [f |-> st.f, ret |-> availSpace - st.availSpace, dest |-> st.dest]

\* reset that leaves m_nbElements alone
ResetKeepsCount(f) == Members(f.m_buffer, 0, 0, f.m_nbElements)

\* reset()
Reset(f) == Members(f.m_buffer, 0, 0, 0)

\* operator[] that takes its argument as an index into m_buffer
AtSlot(f, idx) == f.m_buffer[idx % Capacity]

\* operator[](idx): the slot designated by a logical index
At(f, idx) == f.m_buffer[(f.m_readIdx + idx) % Capacity]

\* the elements a caller can see through operator[], oldest first
Content(f) == [i \in 1 .. f.m_nbElements |-> At(f, i - 1)]

----------------------------------------------------------------------------
(* operator== *)

\* the loop of operator==: i elements compared so far, idx and otherIdx the next slots
RECURSIVE EqualsLoop(_, _, _, _, _)
EqualsLoop(f, other, idx, otherIdx, i) ==
    IF i < f.m_nbElements
    THEN IF f.m_buffer[idx] # other.m_buffer[otherIdx]
         THEN FALSE
         ELSE EqualsLoop(f, other, (idx + 1) % Capacity, (otherIdx + 1) % Capacity, i + 1)
    ELSE TRUE

\* operator== that walks both buffers from this object's read index
EqualsFromOwnIndex(f, other) ==
    IF f.m_nbElements # other.m_nbElements
    THEN FALSE
    ELSE EqualsLoop(f, other, f.m_readIdx, f.m_readIdx, 0)

\* bool operator==(const Fifo<T, t_size> &other) const
Equals(f, other) ==
    IF f.m_nbElements # other.m_nbElements
    THEN FALSE
    ELSE EqualsLoop(f, other, f.m_readIdx, other.m_readIdx, 0)

\* the right-hand operands tried: a FIFO built from a list, then some elements dropped
Others == {Drop(FifoFromList(l), n).f : l \in Sources, n \in Sizes}

----------------------------------------------------------------------------
(* Iterator, begin, end *)

\* Iterator(fifo, index, remaining)
Iterator(index, remaining) == [m_index |-> index, m_remaining |-> remaining]

\* begin()
Begin(f) == Iterator(f.m_readIdx, f.m_nbElements)

\* end()
End(f) == Iterator((f.m_readIdx + f.m_nbElements) % Capacity, 0)

\* Iterator::operator*
IteratorDeref(f, it) == f.m_buffer[it.m_index]

\* Iterator::operator++
IteratorIncrement(it) ==
    IF it.m_remaining > 0
    THEN Iterator((it.m_index + 1) % Capacity, it.m_remaining - 1)
    ELSE it

\* Iterator::operator== that compares the index only
IteratorEqualsByIndex(a, b) == a.m_index = b.m_index

\* Iterator::operator==
IteratorEquals(a, b) == a.m_index = b.m_index /\ a.m_remaining = b.m_remaining

\* the loop below gives up after this many elements, more than any FIFO holds
IterateLimit == MaxLen + 1

\* for (it = begin(); !(it == end()); ++it) visit(*it): what was visited, and
\* whether the loop came to end()
RECURSIVE IterateLoop(_, _, _, _)
IterateLoop(f, it, end, visited) ==
    IF IteratorEquals(it, end) THEN [visited |-> visited, atEnd |-> TRUE]
    ELSE IF Len(visited) >= IterateLimit THEN [visited |-> visited, atEnd |-> FALSE]
    ELSE IterateLoop(f, IteratorIncrement(it), end, Append(visited, IteratorDeref(f, it)))

Iterate(f) == IterateLoop(f, Begin(f), End(f), <<>>)

----------------------------------------------------------------------------
(* the bounded queue: what each call does to a sequence of at most Capacity *)
(* elements                                                                 *)

\* an accepted push appends, and the front goes when the length would pass Capacity;
\* a push that may not overwrite and does not fit does nothing
QueuePush(q, src, overwrite) ==
    IF overwrite \/ Len(src) <= Capacity - Len(q)
    THEN LastN(q \o src, Min(Capacity, Len(q) + Len(src)))
    ELSE q

\* a new queue that takes the elements of the list one by one while they fit
QueueFromList(initList) == TakeN(initList, Min(Len(initList), Capacity))

\* the queue after the call c
QueueAfter(q, c) ==
    CASE c.op = "push"     -> QueuePush(q, c.src, c.overwrite)
      [] c.op = "push1"    -> QueuePush(q, c.src, c.overwrite)
      [] c.op = "pop_back" -> DropN(q, Min(1, Len(q)))
      [] c.op = "pull"     -> DropN(q, Min(c.size, Len(q)))
      [] c.op = "drop"     -> DropN(q, Min(c.size, Len(q)))
      [] c.op = "reset"    -> <<>>
      [] c.op = "Fifo"     -> QueueFromList(c.src)
      [] OTHER             -> q

----------------------------------------------------------------------------
(* the state machine *)

Init ==
    /\ m_buffer = Fifo.m_buffer
    /\ m_readIdx = Fifo.m_readIdx
    /\ m_writeIdx = Fifo.m_writeIdx
    /\ m_nbElements = Fifo.m_nbElements
    /\ call = NoCall
    /\ pre = Fifo
    /\ pushedLog = <<>>
    /\ pulledLog = <<>>
    /\ queue = <<>>

\* a method is called: the members become f, and c is what the caller gets back
Becomes(f, c) ==
    /\ call = NoCall
    /\ m_buffer' = f.m_buffer
    /\ m_readIdx' = f.m_readIdx
    /\ m_writeIdx' = f.m_writeIdx
    /\ m_nbElements' = f.m_nbElements
    /\ call' = c
    /\ pre' = This
    /\ queue' = QueueAfter(queue, c)

\* ret tells whether the assert of the constructor held
DoConstruct(initList) ==
    Becomes(FifoFromList(initList), [NoCall EXCEPT !.op = "Fifo", !.src = initList,
                                                   !.ret = InitListAssert(initList)])

DoPush(src, overwrite) ==
    LET r == PushSpan(This, src, overwrite)
    IN  Becomes(r.f, [NoCall EXCEPT !.op = "push", !.src = src,
                                    !.overwrite = overwrite, !.ret = r.ret])

DoPushSingle(var, overwrite) ==
    LET r == PushSingle(This, var, overwrite)
    IN  Becomes(r.f, [NoCall EXCEPT !.op = "push1", !.src = <<var>>,
                                    !.overwrite = overwrite, !.ret = r.ret])

DoPopBack ==
    LET r == PopBack(This, DestBuffer)
    IN  Becomes(r.f, [NoCall EXCEPT !.op = "pop_back", !.ret = r.ret, !.dest = r.dest])

DoDrop(size) ==
    LET r == Drop(This, size)
    IN  Becomes(r.f, [NoCall EXCEPT !.op = "drop", !.size = size, !.ret = r.ret])

DoPull(availSpace) ==
    LET r == Pull(This, DestBuffer, availSpace)
    IN  Becomes(r.f, [NoCall EXCEPT !.op = "pull", !.size = availSpace, !.ret = r.ret,
                                    !.dest = r.dest])

DoRead(availSpace) ==
    LET r == Read(This, DestBuffer, availSpace)
    IN  Becomes(r.f, [NoCall EXCEPT !.op = "read", !.size = availSpace, !.ret = r.ret,
                                    !.dest = r.dest])

DoReset ==
    Becomes(Reset(This), [NoCall EXCEPT !.op = "reset"])

DoEquals(other) ==
    Becomes(This, [NoCall EXCEPT !.op = "==", !.other = other, !.ret = Equals(This, other)])

DoIterate ==
    LET r == Iterate(This)
    IN  Becomes(This, [NoCall EXCEPT !.op = "iterate", !.visited = r.visited, !.ret = r.atEnd])

\* operator[] used to look at an element; the caller keeps idx below the count
DoIndex(idx) ==
    /\ idx < m_nbElements
    /\ Becomes(This, [NoCall EXCEPT !.op = "[]", !.size = idx, !.ret = At(This, idx)])

Construct  == \E l \in Sources : DoConstruct(l) /\ UNCHANGED <<pushedLog, pulledLog>>
Push       == \E s \in Sources, o \in BOOLEAN : DoPush(s, o) /\ UNCHANGED <<pushedLog, pulledLog>>
PushOne    == \E v \in T, o \in BOOLEAN : DoPushSingle(v, o) /\ UNCHANGED <<pushedLog, pulledLog>>
PopOne     == DoPopBack /\ UNCHANGED <<pushedLog, pulledLog>>
DropSome   == \E n \in Sizes : DoDrop(n) /\ UNCHANGED <<pushedLog, pulledLog>>
PullSome   == \E n \in Sizes : DoPull(n) /\ UNCHANGED <<pushedLog, pulledLog>>
ReadSome   == \E n \in Sizes : DoRead(n) /\ UNCHANGED <<pushedLog, pulledLog>>
ResetAll   == DoReset /\ UNCHANGED <<pushedLog, pulledLog>>
Compare    == \E g \in Others : DoEquals(g) /\ UNCHANGED <<pushedLog, pulledLog>>
IterateAll == DoIterate /\ UNCHANGED <<pushedLog, pulledLog>>
IndexSome  == \E i \in Sizes : DoIndex(i) /\ UNCHANGED <<pushedLog, pulledLog>>

\* the caller takes the result of the call and goes on; the object is not touched
Return ==
    /\ call # NoCall
    /\ call' = NoCall
    /\ pre' = This
    /\ UNCHANGED <<fifoVars, pushedLog, pulledLog, queue>>

Next ==
    \/ Construct
    \/ Push
    \/ PushOne
    \/ PopOne
    \/ DropSome
    \/ PullSome
    \/ ReadSome
    \/ ResetAll
    \/ Compare
    \/ IterateAll
    \/ IndexSome
    \/ Return

Spec == Init /\ [][Next]_vars

----------------------------------------------------------------------------
(* the ordering specification: accepted pushes without overwrite, pops and  *)
(* pulls only, with a log of what went in and what came out                 *)

OrderPush ==
    \E s \in Sources :
        /\ Len(s) <= Capacity - m_nbElements
        /\ Len(pushedLog) + Len(s) <= MaxLog
        /\ DoPush(s, FALSE)
        /\ pushedLog' = pushedLog \o s
        /\ UNCHANGED pulledLog

OrderPop ==
    /\ DoPopBack
    /\ pulledLog' = IF call'.ret THEN Append(pulledLog, call'.dest[1]) ELSE pulledLog
    /\ UNCHANGED pushedLog

OrderPull ==
    \E n \in Sizes :
        /\ DoPull(n)
        /\ pulledLog' = pulledLog \o SubSeq(call'.dest, 1, call'.ret)
        /\ UNCHANGED pushedLog

NextOrder ==
    \/ OrderPush
    \/ OrderPop
    \/ OrderPull
    \/ Return

SpecOrder == Init /\ [][NextOrder]_vars

----------------------------------------------------------------------------
(* properties *)

\* C1: after any sequence of operations the element count is within 0 .. Capacity
CountWithinCapacity == 0 <= m_nbElements /\ m_nbElements <= Capacity

\* an overwriting push of more than Capacity elements has filled the FIFO
CountWithinCapacityWitness ==
    /\ call.op = "push" /\ call.overwrite
    /\ Len(call.src) > Capacity
    /\ pre.m_nbElements > 0
    /\ m_nbElements = Capacity

\* C2: with accepted non-overwrite pushes, pops and pulls only, what has come out is
\* what went in, in the same order, and what is still inside is exactly the rest
FifoOrder ==
    /\ Len(pulledLog) <= Len(pushedLog)
    /\ pulledLog = TakeN(pushedLog, Len(pulledLog))
    /\ Content(This) = DropN(pushedLog, Len(pulledLog))

\* more than Capacity elements went through, and the last pull wrapped around the
\* end of m_buffer and emptied the FIFO
FifoOrderWitness ==
    /\ Len(pushedLog) > Capacity
    /\ pulledLog = pushedLog
    /\ call.op = "pull" /\ call.ret >= 2
    /\ pre.m_readIdx + call.ret > Capacity

\* the call was a span push that does not fit and may not overwrite
PushDoesNotFit ==
    /\ call.op = "push" /\ ~call.overwrite
    /\ Len(call.src) > Capacity - pre.m_nbElements

\* C3: a non-overwrite push longer than the free space returns 0 and changes no member
RejectedPushIsNoOp == PushDoesNotFit => (call.ret = 0 /\ This = pre)

\* a full FIFO whose content wraps has rejected a push that would fit an empty one
RejectedPushIsNoOpWitness ==
    /\ PushDoesNotFit
    /\ pre.m_nbElements = Capacity /\ pre.m_readIdx # 0
    /\ Len(call.src) \in 1 .. Capacity
    /\ call.ret = 0

\* the call was a non-overwrite span push of more than Capacity elements on an empty FIFO
PushTooLongOnEmpty ==
    /\ call.op = "push" /\ ~call.overwrite
    /\ pre.m_nbElements = 0
    /\ Len(call.src) > Capacity

\* C4 as stated: such a push stores the first Capacity elements and returns Capacity
TooLongPushStoresFirstCapacity ==
    PushTooLongOnEmpty =>
        (call.ret = Capacity /\ Content(This) = TakeN(call.src, Capacity))

\* C4 amended: such a push stores nothing and returns 0; the FIFO stays empty
TooLongPushStoresNothing ==
    PushTooLongOnEmpty =>
        (call.ret = 0 /\ m_nbElements = 0 /\ m_buffer = pre.m_buffer)

TooLongPushStoresNothingWitness ==
    /\ PushTooLongOnEmpty
    /\ Len(call.src) = Capacity + 1
    /\ call.ret = 0

\* the call was a span push that may overwrite
OverwritingPush == call.op = "push" /\ call.overwrite

\* C5: after an overwriting push the count is min(Capacity, count before + source
\* length) and the content is that many last elements of old content ++ source
OverwritePushKeepsNewest ==
    OverwritingPush =>
        LET k == Min(Capacity, pre.m_nbElements + Len(call.src))
        IN  /\ m_nbElements = k
            /\ Content(This) = LastN(Content(pre) \o call.src, k)

\* a full FIFO whose content wraps was overwritten for a part
OverwritePushKeepsNewestWitness ==
    /\ OverwritingPush
    /\ pre.m_nbElements = Capacity /\ pre.m_readIdx # 0
    /\ Len(call.src) \in 1 .. Capacity - 1
    /\ Content(This) # Content(pre)

\* the call was a span push that was not turned down
AcceptedPush ==
    /\ call.op = "push"
    /\ call.overwrite \/ Len(call.src) <= Capacity - pre.m_nbElements

SampleWritten ==
    /\ This # pre
    /\ m_nbElements > 0
    /\ At(This, m_nbElements - 1) = call.src[1]

\* C7: the single-element push returns true when the sample was written and false
\* when the FIFO was left unchanged
SinglePushReportsWrite ==
    call.op = "push1" =>
        /\ SampleWritten => call.ret = TRUE
        /\ This = pre => call.ret = FALSE

\* C8: pop_back on an empty FIFO returns false, leaves the destination alone and
\* changes no member
PopOnEmptyIsNoOp ==
    (call.op = "pop_back" /\ pre.m_nbElements = 0) =>
        (call.ret = FALSE /\ call.dest = DestBuffer /\ This = pre)

\* pop_back on a FIFO that was filled and drained, away from index 0
PopOnEmptyIsNoOpWitness ==
    /\ call.op = "pop_back" /\ pre.m_nbElements = 0
    /\ pre.m_readIdx # 0
    /\ pre.m_buffer[pre.m_readIdx] # 0
    /\ call.ret = FALSE

\* C9: drop(n) returns min(count, n), takes that many elements off the front and
\* moves m_readIdx by as much modulo Capacity; on an empty FIFO or with n = 0 it
\* changes nothing
DropTakesFromFront ==
    call.op = "drop" =>
        LET k == Min(pre.m_nbElements, call.size)
        IN  /\ call.ret = k
            /\ m_nbElements = pre.m_nbElements - k
            /\ m_readIdx = (pre.m_readIdx + k) % Capacity
            /\ Content(This) = DropN(Content(pre), k)
            /\ (pre.m_nbElements = 0 \/ call.size = 0) => (call.ret = 0 /\ This = pre)

\* a drop of more than there was, which wrapped m_readIdx, after one that left some
DropTakesFromFrontWitness ==
    /\ call.op = "drop"
    /\ call.size > pre.m_nbElements /\ pre.m_nbElements >= 2
    /\ pre.m_readIdx + call.ret > Capacity
    /\ m_nbElements = 0

\* C10: pull returns k = min(availSpace, count), writes the k oldest elements to the
\* destination in order, takes them off the front and keeps the rest in order; with
\* availSpace = 0 it returns 0 and changes nothing
PullTakesOldest ==
    call.op = "pull" =>
        LET k == Min(call.size, pre.m_nbElements)
        IN  /\ call.ret = k
            /\ TakeN(call.dest, k) = TakeN(Content(pre), k)
            /\ m_nbElements = pre.m_nbElements - k
            /\ Content(This) = DropN(Content(pre), k)
            /\ call.size = 0 => (call.ret = 0 /\ This = pre)

\* a pull of a part of a full FIFO that wrapped around the end of m_buffer
PullTakesOldestWitness ==
    /\ call.op = "pull"
    /\ pre.m_nbElements = Capacity
    /\ call.ret >= 2 /\ call.ret < pre.m_nbElements
    /\ pre.m_readIdx + call.ret > Capacity
    /\ call.dest[1] # call.dest[2]

\* C11: read changes no member, so the same read made again right after it returns
\* the same number and writes the same output
ReadIsNonDestructive ==
    call.op = "read" =>
        LET again == Read(This, DestBuffer, call.size)
        IN  /\ This = pre
            /\ again.ret = call.ret
            /\ again.dest = call.dest
            /\ again.f = pre

\* a read of several elements that wrapped around the end of m_buffer
ReadIsNonDestructiveWitness ==
    /\ call.op = "read"
    /\ call.ret >= 2
    /\ pre.m_readIdx + call.ret > Capacity
    /\ call.dest[1] # call.dest[2]

\* C12: from the same state and with the same availSpace, read and pull return the
\* same number, min(availSpace, count), and write the same output; pull takes the
\* elements out, read leaves them
ReadAgreesWithPull ==
    /\ call.op = "read" =>
          LET p == Pull(pre, DestBuffer, call.size)
          IN  /\ call.ret = p.ret
              /\ call.ret = Min(call.size, pre.m_nbElements)
              /\ call.dest = p.dest
              /\ p.f.m_nbElements = pre.m_nbElements - call.ret
              /\ m_nbElements = pre.m_nbElements
    /\ call.op = "pull" =>
          LET r == Read(pre, DestBuffer, call.size)
          IN  /\ call.ret = r.ret
              /\ call.dest = r.dest

\* a read that was cut short by the count, from a FIFO whose content wraps
ReadAgreesWithPullWitness ==
    /\ call.op = "read"
    /\ call.size > pre.m_nbElements /\ pre.m_nbElements >= 2
    /\ pre.m_readIdx + pre.m_nbElements > Capacity
    /\ call.ret = pre.m_nbElements

\* C13: operator== is true exactly when both FIFOs have the same count and the same
\* elements in logical order, whatever their indices and their unused slots hold
EqualsComparesContent ==
    call.op = "==" =>
        /\ call.ret <=> (/\ pre.m_nbElements = call.other.m_nbElements
                         /\ Content(pre) = Content(call.other))
        /\ This = pre

\* two FIFOs with the same elements at different indices and with different unused
\* slots compare equal
EqualsComparesContentWitness ==
    /\ call.op = "==" /\ call.ret = TRUE
    /\ pre.m_nbElements >= 2
    /\ pre.m_readIdx # call.other.m_readIdx
    /\ pre.m_buffer # call.other.m_buffer
    /\ pre.m_readIdx + pre.m_nbElements > Capacity

\* C14: reset sets the count and both indices to 0; right after it pop_back returns
\* false, read returns 0 for every availSpace, and the FIFO equals a new empty one
ResetEmpties ==
    call.op = "reset" =>
        /\ m_nbElements = 0 /\ m_readIdx = 0 /\ m_writeIdx = 0
        /\ PopBack(This, DestBuffer).ret = FALSE
        /\ \A n \in Sizes : Read(This, DestBuffer, n).ret = 0
        /\ Equals(This, Fifo) /\ Equals(Fifo, This)

\* a full FIFO whose content wrapped was reset; its slots still hold the old elements
ResetEmptiesWitness ==
    /\ call.op = "reset"
    /\ pre.m_nbElements = Capacity /\ pre.m_readIdx # 0
    /\ m_buffer # Fifo.m_buffer
    /\ m_nbElements = 0

\* C15: a loop from begin() to end() over an unchanged FIFO visits exactly its count
\* of elements, in logical order from m_readIdx, and then is at end()
IterationVisitsContent ==
    call.op = "iterate" =>
        /\ call.ret = TRUE
        /\ Len(call.visited) = pre.m_nbElements
        /\ call.visited = Content(pre)
        /\ This = pre

\* a full FIFO whose content wraps: begin() and end() have the same index, and all
\* Capacity elements were visited
IterationVisitsContentWitness ==
    /\ call.op = "iterate"
    /\ pre.m_nbElements = Capacity /\ pre.m_readIdx # 0
    /\ Begin(pre).m_index = End(pre).m_index
    /\ Len(call.visited) = Capacity
    /\ call.visited[1] # call.visited[Capacity]

\* C16: a FIFO built from a list of at most Capacity elements is what a new empty
\* FIFO becomes by one push per element: the count is the length of the list and
\* logical position i holds the i-th element, from slot 0 on, the other slots 0
ListConstructionIsPushes ==
    (call.op = "Fifo" /\ Len(call.src) <= Capacity) =>
        /\ m_nbElements = Len(call.src)
        /\ \A i \in 0 .. Len(call.src) - 1 : At(This, i) = call.src[i + 1]
        /\ m_readIdx = 0
        /\ m_writeIdx = Len(call.src) % Capacity
        /\ m_buffer = [i \in 0 .. Capacity - 1 |->
                          IF i < Len(call.src) THEN call.src[i + 1] ELSE 0]

\* a list of exactly Capacity elements replaced a FIFO that held other elements
ListConstructionIsPushesWitness ==
    /\ call.op = "Fifo" /\ Len(call.src) = Capacity
    /\ pre.m_readIdx # 0 /\ pre.m_nbElements > 0
    /\ Content(pre) # call.src
    /\ m_nbElements = Capacity

\* C17: in every state both indices are in 0 .. Capacity-1 and
\* m_writeIdx = (m_readIdx + m_nbElements) mod Capacity; a full FIFO has both equal
IndicesConsistent ==
    /\ m_readIdx \in 0 .. Capacity - 1
    /\ m_writeIdx \in 0 .. Capacity - 1
    /\ m_writeIdx = (m_readIdx + m_nbElements) % Capacity
    /\ m_nbElements = Capacity => m_writeIdx = m_readIdx

\* a drop that wrapped m_readIdx, from a full FIFO whose read index an overwrite had moved
IndicesConsistentWitness ==
    /\ call.op = "drop"
    /\ pre.m_nbElements = Capacity /\ pre.m_readIdx # 0 /\ pre.m_writeIdx = pre.m_readIdx
    /\ call.ret \in 1 .. Capacity - 1
    /\ pre.m_readIdx + call.ret >= Capacity
    /\ m_writeIdx # m_readIdx

\* C18: for an index below the count, operator[] designates slot
\* (m_readIdx + index) mod Capacity, whose element is the one that comes out after
\* index others: index 0 is what pop_back returns next, and after a push that wrote
\* something index count-1 is the last element pushed
IndexIsLogicalPosition ==
    /\ call.op = "[]" =>
          /\ call.ret = pre.m_buffer[(pre.m_readIdx + call.size) % Capacity]
          /\ call.ret = Pull(pre, DestBuffer, call.size + 1).dest[call.size + 1]
          /\ call.size = 0 => call.ret = PopBack(pre, DestBuffer).dest[1]
          /\ This = pre
    /\ (AcceptedPush /\ Len(call.src) > 0) =>
          At(This, m_nbElements - 1) = call.src[Len(call.src)]
    /\ (call.op = "pop_back" /\ call.ret = TRUE) => call.dest[1] = At(pre, 0)

\* the newest element of a full FIFO whose read index an overwrite had moved, found
\* in a slot before the one of the oldest
IndexIsLogicalPositionWitness ==
    /\ call.op = "[]"
    /\ pre.m_nbElements = Capacity /\ pre.m_readIdx # 0
    /\ call.size = Capacity - 1
    /\ call.ret # pre.m_buffer[call.size]

\* C19: under every interleaving of the calls the logical content of the FIFO is the
\* bounded queue: accepted pushes append and drop from the front when the length
\* would pass Capacity, rejected pushes do nothing, pop_back, pull and drop take
\* from the front
RefinesBoundedQueue ==
    /\ Len(queue) <= Capacity
    /\ m_nbElements = Len(queue)
    /\ Content(This) = queue

\* an overwriting push on a FIFO whose content wraps pushed a part of the old
\* content out of the front and kept the rest
RefinesBoundedQueueWitness ==
    /\ call.op = "push" /\ call.overwrite
    /\ pre.m_nbElements \in 2 .. Capacity /\ pre.m_readIdx # 0
    /\ Len(call.src) \in 1 .. pre.m_nbElements - 1
    /\ pre.m_nbElements + Len(call.src) > Capacity
    /\ queue # Content(pre)
    /\ queue[1] = At(pre, pre.m_nbElements + Len(call.src) - Capacity)

====
